---- MODULE Spec2Model ----
(***************************************************************************)
(* The realtime state synchronisation layer of the supply-chainer          *)
(* frontend: the cascade store (state/cascadeStore.tsx), its stream        *)
(* client (subscribeToStream), the localStorage substrate shared by the    *)
(* tabs of one origin, and the pages that drive the store (Dashboard,      *)
(* Coordination, SupplyGraph). Beside them, the two earlier consumers of    *)
(* the same backend that the repository keeps: the useSSE(isRunning) hook  *)
(* (hooks/useSSE.ts) and the static page (main.js, sse.js).                *)
(*                                                                         *)
(* One step of the model is one event-loop callback of one tab (a click,   *)
(* a timer tick, a fetch resolution, an EventSource event, a storage       *)
(* event) together with the React render and the effects it causes.        *)
(***************************************************************************)
EXTENDS Integers, Sequences, FiniteSets, TLC

\* ------------------------------------------------------------------ bounds
Tabs == {1, 2}
MAX_MESSAGES == 120
MaxAppend == 124
MaxFeed == 1
MaxConn == 2
MaxCascades == 2
MaxInFlight == 2
MaxMutations == 2
MaxInbox == 2 * MaxMutations
MaxLoops == 2

Events == {1, 2}
HOOK_MESSAGES == 100
FEED_CHILDREN == 100
Conns == 1..MaxConn
NoReport == 0
Reports == 0..MaxCascades
NoConn == 0
ProgressVals == {0, 50, 100}
ProgressSnapshots == [running : BOOLEAN, progress : ProgressVals]
\* The Coordination page has the Dashboard's poll effect and trigger handler:
\* "dashboard" stands for either.
PollPages == {"dashboard"}
Pages == {"dashboard", "graph"}
Closed == "closed"
STORAGE_KEY == "supply-chainer:cascade-state"

\* ------------------------------------------------------------- variables
VARIABLES
  progress,     \* [Tabs -> CascadeProgress]      useState, cascadeStore.tsx:74
  report,       \* [Tabs -> Reports]              useState, :75  (0 is null)
  messages,     \* [Tabs -> Seq(events)]          useState, :76
  connected,    \* [Tabs -> BOOLEAN]              useState, :77
  controls,     \* [Tabs -> ControlsState]        useState, :78
  esRef,        \* [Tabs -> Conns \cup {0}]       useRef,   :87  (0 is null)
  readyState,   \* [Tabs -> [Conns -> state]]     the EventSource objects of the tab
  page,         \* [Tabs -> page]                 the mounted route, or "closed"
  pollTimer,    \* [Tabs -> Nat]                  active setInterval timers of the page
  triggering,   \* [Tabs -> BOOLEAN]              a trigger request is awaited
  pollReqs,     \* [Tabs -> [snapshot -> Nat]]    getProgress requests in flight
  reportReqs,   \* [Tabs -> [Reports -> Nat]]     getReport requests in flight
  storage,      \* the value under STORAGE_KEY in localStorage
  inbox,        \* [Tabs -> Seq(raw)]             storage events not yet dispatched
  server,       \* the remote cascade process
  appended,     \* number of appendMessage calls made by the bounding scenario
  budget,       \* mutations (failures) a bounded scenario may still make (see)
  preTrigger,   \* [Tabs -> snapshot]  history: the store when the awaited trigger began
  lastWrite,    \* history: the text of the last write made for a mutation
  seen,         \* [Tabs -> SUBSET Events]  history: the events the tab's stream delivered
  catalogueReqs,\* [Tabs -> Nat]  getCatalogue requests in flight that saw no product selected
  quotaExceeded,\* BOOLEAN        localStorage refuses writes (QuotaExceededError)
  hook,         \* the state of one useSSE(isRunning) hook, hooks/useSSE.ts
  mainjs        \* the state of the static page driven by triggerCascade / startSSE

\* The variables of the store's tabs.
storeState == <<progress, report, messages, connected, controls, esRef,
                readyState, page, pollTimer, triggering, pollReqs, reportReqs,
                storage, inbox, preTrigger, lastWrite, seen, catalogueReqs>>

storeVars == <<storeState, server, appended, budget, quotaExceeded>>

vars == <<progress, report, messages, connected, controls, esRef, readyState,
          page, pollTimer, triggering, pollReqs, reportReqs, storage, inbox,
          server, appended, budget, preTrigger, lastWrite, seen, catalogueReqs,
          quotaExceeded,
          hook, mainjs>>

\* ------------------------------------------------------------ data model
DefaultProgress == [running |-> FALSE, progress |-> 0]

DefaultControls ==
  [productId |-> "", quantity |-> 1, budgetEur |-> 330000,
   desiredDeliveryDate |-> "today+21d"]

DefaultSnapshot ==
  [progress |-> DefaultProgress, report |-> NoReport, messages |-> <<>>,
   controls |-> DefaultControls]

\* GET /api/catalogue: the products the backend offers, in its order.
Catalogue == <<"P0", "P1">>

ControlUpdates ==
  { [field |-> "productId", value |-> "P1"],
    [field |-> "quantity", value |-> 2] }

Min(a, b) == IF a < b THEN a ELSE b

Range(s) == { s[i] : i \in DOMAIN s }

BagSize(b) ==
  LET RECURSIVE Sum(_)
      Sum(S) == IF S = {} THEN 0
                ELSE LET x == CHOOSE x \in S : TRUE IN b[x] + Sum(S \ {x})
  IN Sum(DOMAIN b)

\* ---------------------------------------------------- persistence substrate
\* The text stored under the key: absent, or the JSON text of a snapshot.
RawAbsent == [kind |-> "absent"]

\* A projection that leaves the messages out.
JSONstringifyWithoutMessages(state) ==
  [kind |-> "json", progress |-> state.progress, report |-> state.report,
   messages |-> <<>>, controls |-> state.controls]

JSONstringify(state) ==
  [kind |-> "json", progress |-> state.progress, report |-> state.report,
   messages |-> state.messages, controls |-> state.controls]

\* The empty string, and a text that JSON.parse rejects.
RawEmpty == [kind |-> "empty"]
RawGarbage == [kind |-> "garbage"]

\* !raw: getItem returned null or the empty string.
Falsy(raw) == raw.kind \in {"absent", "empty"}

\* A read without the try: the SyntaxError of JSON.parse leaves the function.
readStorageUnguarded(raw) ==
  IF raw.kind = "json"
    THEN [isNull |-> FALSE, threw |-> FALSE, progress |-> raw.progress,
          report |-> raw.report, messages |-> raw.messages,
          controls |-> raw.controls]
    ELSE [isNull |-> TRUE, threw |-> ~Falsy(raw)]

\* readStorage(), cascadeStore.tsx:40-49: null when the key is absent or
\* empty, and null from the catch when the text does not parse.
readStorage(raw) ==
  IF raw.kind = "json"
    THEN [isNull |-> FALSE, threw |-> FALSE, progress |-> raw.progress,
          report |-> raw.report, messages |-> raw.messages,
          controls |-> raw.controls]
    ELSE [isNull |-> TRUE, threw |-> FALSE]

\* The browser's setItem: a value equal to the stored one changes nothing and
\* fires no event; a changed value is queued as a storage event for every
\* other open tab of the origin.
setItem(w, t, raw) ==
  IF raw = w.storage THEN w
  ELSE [w EXCEPT !.storage = raw,
                 !.inbox = [u \in Tabs |->
                              IF u # t /\ page[u] # Closed
                                THEN Append(w.inbox[u], [key |-> STORAGE_KEY, newValue |-> raw])
                                ELSE w.inbox[u]],
                 !.calls = Append(w.calls, "storageEvent")]

\* A write whose failure removes the key.
writeStorageRemoving(w, t) ==
  LET w1 == [w EXCEPT !.calls = Append(w.calls, "writeStorage")]
  IN IF quotaExceeded THEN setItem(w1, t, RawAbsent)
     ELSE setItem(w1, t, JSONstringify(w))

\* cascadeStore.tsx:51-71. localStorage.setItem throws when the quota is
\* exceeded; the catch ignores it.
writeStorage(w, t) ==
  LET w1 == [w EXCEPT !.calls = Append(w.calls, "writeStorage")]
  IN IF quotaExceeded THEN w1
     ELSE setItem(w1, t, JSONstringify(w))

\* ------------------------------------------------------------ the store
\* Everything a callback of tab t can read or write, as one record.
Tab(t) ==
  [progress |-> progress[t], report |-> report[t], messages |-> messages[t],
   connected |-> connected[t], controls |-> controls[t],
   esRef |-> esRef[t], readyState |-> readyState[t],
   pollTimer |-> pollTimer[t], pollReqs |-> pollReqs[t],
   reportReqs |-> reportReqs[t], catalogueReqs |-> catalogueReqs[t],
   storage |-> storage, inbox |-> inbox, calls |-> <<>>, ok |-> TRUE]

SnapshotOf(t) ==
  [progress |-> progress[t], report |-> report[t], messages |-> messages[t],
   controls |-> controls[t]]

\* A buffer without a cap.
appendMessageUnbounded(prev, msg) == Append(prev, msg)

\* A buffer that keeps the first MAX_MESSAGES events, as next.slice(0,
\* MAX_MESSAGES) would.
appendMessageKeepOldest(prev, msg) ==
  LET next == Append(prev, msg)
  IN IF Len(next) > MAX_MESSAGES THEN SubSeq(next, 1, MAX_MESSAGES) ELSE next

appendMessage(prev, msg) ==
  LET next == Append(prev, msg)
  IN IF Len(next) > MAX_MESSAGES
       THEN SubSeq(next, Len(next) - MAX_MESSAGES + 1, Len(next))
       ELSE next

\* An update that replaces the controls by the defaults and the named field.
setControlsReplacing(prev, u) ==
  IF u.field = "productId" THEN [DefaultControls EXCEPT !.productId = u.value]
  ELSE [DefaultControls EXCEPT !.quantity = u.value]

\* cascadeStore.tsx:89-91: (prev) => ({ ...prev, ...updates }).
setControls(prev, u) ==
  IF u.field = "productId" THEN [prev EXCEPT !.productId = u.value]
  ELSE [prev EXCEPT !.quantity = u.value]

\* An EventSource that is closed and no longer referenced is garbage: its
\* slot is free again.
Collect(w) ==
  [w EXCEPT !.readyState =
     [c \in Conns |-> IF w.readyState[c] = "closed" /\ c # w.esRef
                        THEN "none" ELSE w.readyState[c]]]

close(w, c) ==
  IF c # NoConn /\ w.readyState[c] # "none"
    THEN [w EXCEPT !.readyState[c] = "closed"] ELSE w

\* A connect that forgets to close the connection it replaces.
connectStreamNoClose(w) ==
  LET free == { c \in Conns : w.readyState[c] \in {"none", "closed"} }
  IN IF free = {} THEN [w EXCEPT !.ok = FALSE]
     ELSE LET es == CHOOSE c \in free : \A d \in free : c <= d
          IN [w EXCEPT !.readyState[es] = "connecting", !.esRef = es,
                       !.calls = Append(w.calls, "connectStream")]

connectStream(w) ==
  LET w1 == close(w, w.esRef)
      free == { c \in Conns : w1.readyState[c] \in {"none", "closed"} }
  IN IF free = {} THEN [w EXCEPT !.ok = FALSE]
     ELSE LET es == CHOOSE c \in free : \A d \in free : c <= d
          IN [w1 EXCEPT !.readyState[es] = "connecting", !.esRef = es,
                        !.calls = Append(w1.calls, "connectStream")]

disconnectStream(w) ==
  [close(w, w.esRef) EXCEPT !.esRef = NoConn, !.connected = FALSE]

\* ------------------------------------------------------- snapshot client
EmptyPolls == [p \in ProgressSnapshots |-> 0]
EmptyReports == [r \in Reports |-> 0]

Bump(bag, x) == [bag EXCEPT ![x] = @ + 1]
Drop(bag, x) == [bag EXCEPT ![x] = @ - 1]

\* api.getProgress(): the request is answered with the server's progress.
getProgress(w) ==
  [w EXCEPT !.pollReqs = Bump(@, [running |-> server.running,
                                   progress |-> server.progress]),
            !.calls = Append(@, "getProgress")]

\* api.getReport(): GET /api/report answers with the report, or with null.
getReport(w) ==
  [w EXCEPT !.reportReqs = Bump(@, server.report),
            !.calls = Append(@, "getReport")]

\* api.getCatalogue() as the Dashboard's catalogue effect calls it. The
\* request is counted when the render that issued it had no product selected:
\* the answer of any other request sets page-local state only.
getCatalogue(w) ==
  [w EXCEPT !.catalogueReqs = IF w.controls.productId = "" THEN @ + 1 ELSE @,
            !.calls = Append(@, "getCatalogue")]

\* ---------------------------------------------------------------- effects
\* Dashboard.tsx:40-50, re-run when controls.productId changes.
catalogueEffect(old, w, pg) ==
  IF pg \in PollPages /\ w.controls.productId # old.controls.productId
    THEN getCatalogue(w) ELSE w

\* Dashboard.tsx:53-70 / Coordination.tsx:50-64, re-run when progress.running
\* changes: the cleanup clears the interval, the body starts one while running.
pollEffect(old, w, pg) ==
  IF pg \in PollPages /\ w.progress.running # old.progress.running
    THEN [w EXCEPT !.pollTimer = IF w.progress.running THEN 1 ELSE 0]
    ELSE w

\* SupplyGraph.tsx:53-62, re-run when report changes: fetch when it is null.
graphEffect(old, w, pg) ==
  IF pg = "graph" /\ old.report # NoReport /\ w.report = NoReport
    THEN getReport(w) ELSE w

\* cascadeStore.tsx:131-133, re-run when progress, report, messages or
\* controls is a new object.
writeEffect(w, t, wr) == IF wr THEN writeStorage(w, t) ELSE w

\* cascadeStore.tsx:152-156, re-run when progress.running or connected changes.
autoReconnect(old, w) ==
  IF (w.progress.running # old.progress.running \/ w.connected # old.connected)
     /\ w.progress.running /\ ~w.connected
    THEN connectStream(w) ELSE w

\* The element of a one-element set.
Only(S) == CHOOSE x \in S : TRUE

\* The render after a callback of tab t and the effects whose dependencies
\* changed: the page's effects first (children), then the provider's.
\* Each effect sees the state the previous one left (wc, w0, w1, w2, w3 in
\* turn).
EffectsOn(old, w, t, pg, wr) ==
  Only({ autoReconnect(old, w3) :
           w3 \in { writeEffect(w2, t, wr) :
                      w2 \in { graphEffect(old, w1, pg) :
                                 w1 \in { pollEffect(old, w0, pg) :
                                            w0 \in { catalogueEffect(old, wc, pg) :
                                                       wc \in {w} } } } } })

Effects(old, w, t, wr) == EffectsOn(old, w, t, page[t], wr)

\* ----------------------------------------------------------------- commit
Commit(t, w0) ==
  \E w \in {Collect(w0)} :
  /\ w.ok
  /\ \A u \in Tabs : Len(w.inbox[u]) <= MaxInbox
  /\ BagSize(w.pollReqs) + BagSize(w.reportReqs) <= MaxInFlight
  /\ w.catalogueReqs <= MaxInFlight
  /\ progress' = [progress EXCEPT ![t] = w.progress]
  /\ report' = [report EXCEPT ![t] = w.report]
  /\ messages' = [messages EXCEPT ![t] = w.messages]
  /\ connected' = [connected EXCEPT ![t] = w.connected]
  /\ controls' = [controls EXCEPT ![t] = w.controls]
  /\ esRef' = [esRef EXCEPT ![t] = w.esRef]
  /\ readyState' = [readyState EXCEPT ![t] = w.readyState]
  /\ pollTimer' = [pollTimer EXCEPT ![t] = w.pollTimer]
  /\ pollReqs' = [pollReqs EXCEPT ![t] = w.pollReqs]
  /\ reportReqs' = [reportReqs EXCEPT ![t] = w.reportReqs]
  /\ storage' = w.storage
  /\ inbox' = w.inbox
  /\ catalogueReqs' = [catalogueReqs EXCEPT ![t] = w.catalogueReqs]
  /\ UNCHANGED <<quotaExceeded, hook, mainjs>>

Open(t) == page[t] # Closed

\* ------------------------------------------------------- trigger (pages)
\* Dashboard.tsx:72-75: setTriggering(true); setReport(null); clear().
AfterTriggerStart(t) ==
  Effects(Tab(t), [Tab(t) EXCEPT !.report = NoReport, !.messages = <<>>], t, TRUE)

TriggerStart(t) ==
  /\ page[t] \in PollPages
  /\ ~triggering[t] /\ ~progress[t].running
  /\ Commit(t, AfterTriggerStart(t))
  /\ triggering' = [triggering EXCEPT ![t] = TRUE]
  /\ UNCHANGED <<page, server, appended, budget, lastWrite, seen>>

handleTrigger(t) == TriggerStart(t) /\ UNCHANGED preTrigger

\* The same click, with the store it found recorded for the trigger scenario.
handleTriggerRecorded(t) ==
  TriggerStart(t) /\ preTrigger' = [preTrigger EXCEPT ![t] = SnapshotOf(t)]

\* Dashboard.tsx:85-86 after the awaited start call: setProgress; connect().
AfterTriggerOk(t) ==
  Effects(Tab(t),
          connectStream([Tab(t) EXCEPT !.progress = [running |-> TRUE, progress |-> 0]]),
          t, TRUE)

\* POST /registry/trigger succeeds when no cascade runs: prepare_new_cascade().
TriggerOk(t) ==
  /\ Open(t) /\ triggering[t]
  /\ ~server.running /\ server.cascades < MaxCascades
  /\ server' = [running |-> TRUE, progress |-> 0, report |-> NoReport,
                cascades |-> server.cascades + 1]
  /\ Commit(t, AfterTriggerOk(t))
  /\ triggering' = [triggering EXCEPT ![t] = FALSE]
  /\ preTrigger' = [preTrigger EXCEPT ![t] = DefaultSnapshot]
  /\ UNCHANGED <<page, appended, budget, lastWrite, seen>>

\* Dashboard.tsx:87-91: the error is logged, setTriggering(false).
TriggerFailed(t) ==
  /\ Open(t) /\ triggering[t]
  /\ triggering' = [triggering EXCEPT ![t] = FALSE]
  /\ preTrigger' = [preTrigger EXCEPT ![t] = DefaultSnapshot]
  /\ UNCHANGED <<progress, report, messages, connected, controls, esRef,
                 readyState, page, pollTimer, pollReqs, reportReqs, storage,
                 inbox, server, appended, budget, lastWrite, seen, catalogueReqs,
                 quotaExceeded, hook, mainjs>>

\* ------------------------------------------------------- progress poller
\* One tick of setInterval: the request of api.getProgress() is sent.
PollTick(t) ==
  /\ Open(t) /\ pollTimer[t] > 0
  /\ Commit(t, getProgress(Tab(t)))
  /\ UNCHANGED <<page, triggering, preTrigger, lastWrite, seen, server, appended, budget>>

\* A completion that also empties the feed.
AfterPollResponseClearing(t, p) ==
  LET w1 == [Tab(t) EXCEPT !.pollReqs = Drop(@, p), !.progress = p]
      w2 == IF p.running THEN w1
            ELSE getReport([w1 EXCEPT !.pollTimer = 0, !.messages = <<>>])
  IN Effects(Tab(t), w2, t, TRUE)

\* Dashboard.tsx:57-64: setProgress(p); when !p.running: clearInterval,
\* getReport().then(setReport).
AfterPollResponse(t, p) ==
  LET w1 == [Tab(t) EXCEPT !.pollReqs = Drop(@, p), !.progress = p]
      w2 == IF p.running THEN w1 ELSE getReport([w1 EXCEPT !.pollTimer = 0])
  IN Effects(Tab(t), w2, t, TRUE)

PollResponse(t, p) ==
  /\ Open(t) /\ pollReqs[t][p] > 0
  /\ Commit(t, AfterPollResponse(t, p))
  /\ UNCHANGED <<page, triggering, preTrigger, lastWrite, seen, server, appended, budget>>

\* A tick that gives up polling when its request fails.
AfterPollFailedStopping(t, p) ==
  [Tab(t) EXCEPT !.pollReqs = Drop(@, p), !.pollTimer = 0]

\* Dashboard.tsx:65-67: a rejected getProgress() is ignored.
AfterPollFailed(t, p) == [Tab(t) EXCEPT !.pollReqs = Drop(@, p)]

PollFails(t, p) ==
  /\ Open(t) /\ pollReqs[t][p] > 0
  /\ Commit(t, AfterPollFailed(t, p))
  /\ UNCHANGED <<page, triggering, preTrigger, lastWrite, seen, server, appended>>

PollFailed(t, p) == PollFails(t, p) /\ UNCHANGED budget

\* A failure counted against those the polling scenario may still see.
PollFailedCounted(t, p) ==
  PollFails(t, p) /\ budget > 0 /\ budget' = budget - 1

\* getReport().then(setReport): setReport(null) on a null report changes
\* nothing and causes no render.
AfterReportResponse(t, r) ==
  LET w1 == [Tab(t) EXCEPT !.reportReqs = Drop(@, r), !.report = r]
  IN IF r = NoReport /\ report[t] = NoReport THEN w1
     ELSE Effects(Tab(t), w1, t, TRUE)

ReportResponse(t, r) ==
  /\ Open(t) /\ reportReqs[t][r] > 0
  /\ Commit(t, AfterReportResponse(t, r))
  /\ UNCHANGED <<page, triggering, preTrigger, lastWrite, seen, server, appended, budget>>

\* .catch(() => {})
ReportFails(t, r) ==
  /\ Open(t) /\ reportReqs[t][r] > 0
  /\ Commit(t, [Tab(t) EXCEPT !.reportReqs = Drop(@, r)])
  /\ UNCHANGED <<page, triggering, preTrigger, lastWrite, seen, server, appended>>

ReportFailed(t, r) == ReportFails(t, r) /\ UNCHANGED budget

\* A failure counted against those the scenario may still see.
ReportFailedCounted(t, r) ==
  ReportFails(t, r) /\ budget > 0 /\ budget' = budget - 1

\* ---------------------------------------------------------------- routing
\* Leaving a page runs its effect cleanups; entering one runs its effects.
AfterNavigate(t, pg) ==
  LET w1 == [Tab(t) EXCEPT !.pollTimer = 0]
      w2 == getCatalogue(w1)
  IN IF pg \in PollPages
       THEN IF w2.progress.running THEN [w2 EXCEPT !.pollTimer = 1] ELSE w2
     ELSE IF pg = "graph" /\ w1.report = NoReport THEN getReport(w1)
     ELSE w1

Navigate(t, pg) ==
  /\ Open(t) /\ pg \in Pages /\ pg # page[t]
  /\ Commit(t, AfterNavigate(t, pg))
  /\ page' = [page EXCEPT ![t] = pg]
  /\ UNCHANGED <<triggering, preTrigger, lastWrite, seen, server, appended, budget>>

\* ----------------------------------------------------------- stream client
\* cascadeStore.tsx:113: es.onopen = () => setConnected(true).
AfterOpen(t, c) ==
  Effects(Tab(t), [Tab(t) EXCEPT !.readyState[c] = "open", !.connected = TRUE], t, FALSE)

onopen(t, c) ==
  /\ Open(t) /\ readyState[t][c] = "connecting"
  /\ Commit(t, AfterOpen(t, c))
  /\ UNCHANGED <<page, triggering, preTrigger, lastWrite, seen, server, appended, budget>>

\* subscribeToStream's onmessage with a frame that parses to a LiveMessage:
\* appendMessage(msg); setConnected(true).
AfterMessage(t, e) ==
  Effects(Tab(t),
          [Tab(t) EXCEPT !.messages = appendMessage(@, e), !.connected = TRUE],
          t, TRUE)

Receive(t, c, e) ==
  /\ Open(t) /\ readyState[t][c] = "open"
  /\ Commit(t, AfterMessage(t, e))
  /\ UNCHANGED <<page, triggering, preTrigger, lastWrite, server, appended, budget>>

onmessage(t, c, e) ==
  /\ Len(messages[t]) < MaxFeed
  /\ Receive(t, c, e)
  /\ UNCHANGED seen

\* The same handler on a stream that delivers each event to a tab at most
\* once, the delivery recorded.
onmessageOnce(t, c, e) ==
  /\ e \notin seen[t]
  /\ Receive(t, c, e)
  /\ seen' = [seen EXCEPT ![t] = @ \cup {e}]

\* The EventSource fires error: a failed connection is closed for good
\* (fatal), a lost one is retried by the browser on the same object. The
\* store's handler is () => setConnected(false).
AfterError(t, c, fatal) ==
  Effects(Tab(t),
          [Tab(t) EXCEPT !.readyState[c] = IF fatal THEN "closed" ELSE "connecting",
                         !.connected = FALSE],
          t, FALSE)

onerror(t, c, fatal) ==
  /\ Open(t) /\ readyState[t][c] \in {"connecting", "open"}
  /\ Commit(t, AfterError(t, c, fatal))
  /\ UNCHANGED <<page, triggering, preTrigger, lastWrite, seen, server, appended, budget>>

\* The store's disconnectStream, as a consumer calls it.
AfterDisconnect(t) == Effects(Tab(t), disconnectStream(Tab(t)), t, FALSE)

DisconnectStream(t) ==
  /\ Open(t)
  /\ Commit(t, AfterDisconnect(t))
  /\ UNCHANGED <<page, triggering, preTrigger, lastWrite, seen, server, appended, budget>>

\* ---------------------------------------------------------------- controls
AfterSetControls(t, u) ==
  Effects(Tab(t), [Tab(t) EXCEPT !.controls = setControls(@, u)], t, TRUE)

\* Dashboard.tsx:41-47, for a request whose closure saw no product selected:
\* setControls({ productId: items[0].product_id }) when items is not empty.
AfterCatalogue(t, items) ==
  LET w1 == [Tab(t) EXCEPT !.catalogueReqs = @ - 1]
  IN IF items = <<>> THEN w1
     ELSE Effects(Tab(t),
                  [w1 EXCEPT !.controls =
                     setControls(@, [field |-> "productId", value |-> Head(items)])],
                  t, TRUE)

CatalogueResponse(t) ==
  /\ Open(t) /\ catalogueReqs[t] > 0
  /\ Commit(t, AfterCatalogue(t, Catalogue))
  /\ UNCHANGED <<page, triggering, preTrigger, lastWrite, seen, server, appended, budget>>

\* .catch(() => {})
CatalogueFailed(t) ==
  /\ Open(t) /\ catalogueReqs[t] > 0
  /\ Commit(t, [Tab(t) EXCEPT !.catalogueReqs = @ - 1])
  /\ UNCHANGED <<page, triggering, preTrigger, lastWrite, seen, server, appended, budget>>

\* A listener that adopts the report only when it is truthy, as the
\* rehydration does.
onStorageTruthyReport(w, ev) ==
  IF ev.key # STORAGE_KEY \/ Falsy(ev.newValue) THEN w
  ELSE LET next == readStorage(ev.newValue)
       IN IF next.isNull THEN w
          ELSE [w EXCEPT !.progress = next.progress,
                         !.report = IF next.report # NoReport THEN next.report ELSE @,
                         !.messages = next.messages, !.controls = next.controls]

\* A listener that also takes the tab for disconnected.
onStorageResettingConnected(w, ev) ==
  IF ev.key # STORAGE_KEY \/ Falsy(ev.newValue) THEN w
  ELSE LET next == readStorage(ev.newValue)
       IN IF next.isNull THEN w
          ELSE [w EXCEPT !.progress = next.progress, !.report = next.report,
                         !.messages = next.messages, !.controls = next.controls,
                         !.connected = FALSE]

\* ------------------------------------------------------ cross-context merge
\* cascadeStore.tsx:136-147. A snapshot text written by writeStorage has all
\* four keys: next.progress, next.messages and next.controls are objects
\* (truthy) and next.report is an object or null (never undefined).
onStorage(w, ev) ==
  IF ev.key # STORAGE_KEY \/ Falsy(ev.newValue) THEN w
  ELSE LET next == readStorage(ev.newValue)
       IN IF next.isNull THEN w
          ELSE [w EXCEPT !.progress = next.progress, !.report = next.report,
                         !.messages = next.messages, !.controls = next.controls]

\* The listener's early return and its catch leave the state alone. The
\* setters it calls otherwise are given freshly parsed objects, so the render
\* that follows re-runs the write effect even when the values are equal.
Ignored(ev) ==
  ev.key # STORAGE_KEY \/ Falsy(ev.newValue) \/ readStorage(ev.newValue).isNull

\* A listener that does not look at the key of the event.
AfterStorageEventAnyKey(t) ==
  LET w0 == [Tab(t) EXCEPT !.inbox[t] = Tail(@)]
      ev == Head(inbox[t])
      next == readStorage(ev.newValue)
  IN IF Falsy(ev.newValue) \/ next.isNull THEN w0
     ELSE Effects(Tab(t),
                  [w0 EXCEPT !.progress = next.progress, !.report = next.report,
                             !.messages = next.messages, !.controls = next.controls],
                  t, TRUE)

AfterStorageEvent(t) ==
  LET w0 == [Tab(t) EXCEPT !.inbox[t] = Tail(@)]
      ev == Head(inbox[t])
  IN IF Ignored(ev) THEN w0 ELSE Effects(Tab(t), onStorage(w0, ev), t, TRUE)

StorageEvent(t) ==
  /\ Open(t) /\ inbox[t] # <<>>
  /\ Commit(t, AfterStorageEvent(t))
  /\ UNCHANGED <<page, triggering, preTrigger, lastWrite, seen, server, appended, budget>>

\* --------------------------------------------------- construction, reload
\* The document goes away: the provider's cleanup closes the held connection
\* (cascadeStore.tsx:158-160), the page's cleanup clears its interval, and
\* the requests and storage events of the document are dropped.
Unmount(w, t) ==
  [close(w, w.esRef) EXCEPT !.pollTimer = 0, !.pollReqs = EmptyPolls,
                            !.reportReqs = EmptyReports, !.catalogueReqs = 0,
                            !.inbox[t] = <<>>]

\* useState initial values, cascadeStore.tsx:74-87.
Fresh(w) ==
  [w EXCEPT !.progress = DefaultProgress, !.report = NoReport, !.messages = <<>>,
            !.connected = FALSE, !.controls = DefaultControls, !.esRef = NoConn]

\* A rehydration that leaves the controls at their initial values.
rehydrateWithoutControls(w, stored) ==
  IF stored.isNull THEN w
  ELSE [w EXCEPT !.progress = stored.progress,
                 !.report = IF stored.report # NoReport THEN stored.report ELSE @,
                 !.messages = stored.messages]

\* The rehydration effect, cascadeStore.tsx:123-129: a field is adopted when
\* it is truthy (a null report is not).
rehydrate(w, stored) ==
  IF stored.isNull THEN w
  ELSE [w EXCEPT !.progress = stored.progress,
                 !.report = IF stored.report # NoReport THEN stored.report ELSE @,
                 !.messages = stored.messages, !.controls = stored.controls]

\* The first render shows the initial values and its effects run against
\* them: the page's (SupplyGraph fetches, report being null; the Dashboard
\* asks for the catalogue, no product being selected), the rehydration read,
\* the write effect. The state set by the rehydration is rendered next,
\* with the effects that depend on it.
Mount(w, t, pg) ==
  LET first == Fresh(w)
      m1 == IF pg = "graph" THEN getReport(first)
            ELSE IF pg \in PollPages THEN getCatalogue(first)
            ELSE first
      stored == readStorage(m1.storage)
      m2 == writeStorage(m1, t)
  IN IF stored.threw THEN [m1 EXCEPT !.ok = FALSE]
     ELSE IF stored.isNull THEN m2
     ELSE EffectsOn(m2, rehydrate(m2, stored), t, pg, TRUE)

AfterReload(t) == Mount(Collect(Unmount(Tab(t), t)), t, page[t])

Reload(t) ==
  /\ Open(t)
  /\ Commit(t, AfterReload(t))
  /\ triggering' = [triggering EXCEPT ![t] = FALSE]
  /\ preTrigger' = [preTrigger EXCEPT ![t] = DefaultSnapshot]
  /\ UNCHANGED <<page, server, appended, budget, lastWrite, seen>>

\* A reload within the two-tab scenario counts as one of its mutations.
ReloadTab(t) ==
  /\ Open(t) /\ budget > 0
  /\ Commit(t, AfterReload(t))
  /\ triggering' = [triggering EXCEPT ![t] = FALSE]
  /\ preTrigger' = [preTrigger EXCEPT ![t] = DefaultSnapshot]
  /\ budget' = budget - 1
  /\ UNCHANGED <<page, server, appended, lastWrite, seen>>

\* ------------------------------------------------ other scripts of the origin
\* What a document of the origin that is not a tab of the store leaves in
\* localStorage: the store's key removed, emptied or set to a text that is
\* not JSON, and another key set to the text of a snapshot.
OTHER_KEY == "supply-chainer:other"

ForeignEvents ==
  { [key |-> STORAGE_KEY, newValue |-> raw] : raw \in {RawAbsent, RawEmpty, RawGarbage} }
  \cup { [key |-> OTHER_KEY,
          newValue |-> JSONstringify([progress |-> [running |-> TRUE, progress |-> 50],
                                      report |-> 1, messages |-> <<1>>,
                                      controls |-> DefaultControls])] }

\* The write changes the stored value and is notified to every open tab; a
\* write of the value already stored is no change. It counts as one of the
\* scenario's mutations.
ForeignWrite(ev) ==
  /\ budget > 0
  /\ ev.key = STORAGE_KEY => ev.newValue # storage
  /\ storage' = IF ev.key = STORAGE_KEY THEN ev.newValue ELSE storage
  /\ inbox' = [u \in Tabs |-> IF Open(u) THEN Append(inbox[u], ev) ELSE inbox[u]]
  /\ \A u \in Tabs : Len(inbox'[u]) <= MaxInbox
  /\ budget' = budget - 1
  /\ UNCHANGED <<progress, report, messages, connected, controls, esRef,
                 readyState, page, pollTimer, triggering, preTrigger, lastWrite, seen,
                 pollReqs, reportReqs, server, appended, catalogueReqs,
                 quotaExceeded, hook, mainjs>>

\* ------------------------------------------------------- the remote process
\* run_cascade ends: the report of this cascade is stored.
ServerFinish ==
  /\ server.running
  /\ server' = [server EXCEPT !.running = FALSE, !.progress = 100,
                              !.report = server.cascades]
  /\ UNCHANGED <<progress, report, messages, connected, controls, esRef,
                 readyState, page, pollTimer, triggering, preTrigger, lastWrite, seen, pollReqs,
                 reportReqs, storage, inbox, appended, budget, catalogueReqs,
                 quotaExceeded, hook, mainjs>>

\* ------------------------------------------------ the store's operations
\* The operations of the store's context value, called by any consumer.
ProgressInputs == { [running |-> TRUE, progress |-> 50],
                    [running |-> FALSE, progress |-> 100] }
ReportInputs == {NoReport, 1}

AfterSetProgress(t, p) == Effects(Tab(t), [Tab(t) EXCEPT !.progress = p], t, TRUE)

AfterSetReport(t, r) ==
  IF r = NoReport /\ report[t] = NoReport THEN Tab(t)
  ELSE Effects(Tab(t), [Tab(t) EXCEPT !.report = r], t, TRUE)

AfterAppendMessage(t, e) ==
  Effects(Tab(t), [Tab(t) EXCEPT !.messages = appendMessage(@, e)], t, TRUE)

AfterClearMessages(t) == Effects(Tab(t), [Tab(t) EXCEPT !.messages = <<>>], t, TRUE)

Mutate(t, w) ==
  /\ Open(t) /\ budget > 0
  /\ Commit(t, w)
  /\ budget' = budget - 1
  /\ UNCHANGED <<page, triggering, preTrigger, server, appended, seen>>

Mutation(t, w) == Mutate(t, w) /\ UNCHANGED lastWrite

\* The same call, with the text recorded that its write effect, when the
\* call causes a render, hands to the substrate.
MutationRecorded(t, w) ==
  /\ Mutate(t, w)
  /\ lastWrite' = IF "writeStorage" \in Range(w.calls)
                    THEN JSONstringify(SnapshotOf(t))' ELSE lastWrite

SetProgress(t, p) == Mutation(t, AfterSetProgress(t, p))
SetReport(t, r) == Mutation(t, AfterSetReport(t, r))
AppendMessage(t, e) == Mutation(t, AfterAppendMessage(t, e))
ClearMessages(t) == Mutation(t, AfterClearMessages(t))
SetControls(t, u) == Mutation(t, AfterSetControls(t, u))

\* Any one call of a setter of the store, its write recorded.
Mutations(t) ==
  { AfterSetProgress(t, p) : p \in ProgressInputs }
  \cup { AfterSetReport(t, r) : r \in ReportInputs }
  \cup { AfterAppendMessage(t, e) : e \in Events }
  \cup { AfterClearMessages(t) }
  \cup { AfterSetControls(t, u) : u \in ControlUpdates }

MutateRecorded(t) == \E w \in Mutations(t) : MutationRecorded(t, w)

\* The origin's storage fills up, or room is made in it (other keys of the
\* origin are written and removed).
QuotaChange ==
  /\ quotaExceeded' = ~quotaExceeded
  /\ UNCHANGED <<storeState, server, appended, budget, hook, mainjs>>

\* The bounding scenario: the n-th call appends event n.
AppendNext(t) ==
  /\ Open(t) /\ appended < MaxAppend
  /\ Commit(t, AfterAppendMessage(t, appended + 1))
  /\ appended' = appended + 1
  /\ UNCHANGED <<page, triggering, preTrigger, lastWrite, seen, server, budget>>

\* The two-tab streaming scenario: the n-th event of the stream is appended
\* by the tab that receives it, and counts as one of the scenario's mutations.
AppendCounted(t) ==
  /\ Open(t) /\ budget > 0
  /\ Commit(t, AfterAppendMessage(t, appended + 1))
  /\ appended' = appended + 1
  /\ budget' = budget - 1
  /\ UNCHANGED <<page, triggering, preTrigger, lastWrite, seen, server>>

\* ------------------------------------------------------------ stream frames
\* The data of a frame the transport delivers: text that is not JSON, the
\* JSON text of a heartbeat, or the JSON text of a LiveMessage.
Frame(e) == [json |-> TRUE, type |-> "message", id |-> e]
Heartbeat == [json |-> TRUE, type |-> "heartbeat"]
Garbage == [json |-> FALSE]
Noise == {Garbage, Heartbeat}
Frames == Noise \cup { Frame(e) : e \in Events }

\* JSON.parse(event.data): throws on text that is not JSON.
JSONparse(data) ==
  IF data.json THEN [threw |-> FALSE, type |-> data.type,
                     id |-> IF data.type = "message" THEN data.id ELSE 0]
  ELSE [threw |-> TRUE]

\* ------------------------------------------------- the useSSE(isRunning) hook
\* hooks/useSSE.ts:13-49. es is the readyState of the EventSource made by the
\* last run of the effect ("none" before the first); the ones before it are
\* closed.
InitHook ==
  [isRunning |-> FALSE, messages |-> <<>>, isConnected |-> FALSE, es |-> "none"]

\* A list that drops its newest entry when it is full, as
\* [msg, ...prev].slice(-100) would.
hookSetMessagesKeepOldest(prev, msg) ==
  LET next == <<msg>> \o prev
  IN IF Len(next) > HOOK_MESSAGES THEN SubSeq(next, 2, Len(next)) ELSE next

\* [msg, ...prev].slice(0, 100)
hookSetMessages(prev, msg) ==
  LET next == <<msg>> \o prev
  IN IF Len(next) > HOOK_MESSAGES THEN SubSeq(next, 1, HOOK_MESSAGES) ELSE next

\* The component re-renders with another isRunning: the cleanup of the last
\* run (close, setIsConnected(false)) when it had made a connection, then the
\* effect.
HookRender(b) ==
  /\ b # hook.isRunning
  /\ hook' = [hook EXCEPT !.isRunning = b,
                          !.isConnected = IF hook.isRunning THEN FALSE ELSE @,
                          !.es = IF b THEN "connecting"
                                 ELSE IF hook.isRunning THEN "closed" ELSE @]
  /\ UNCHANGED <<storeVars, mainjs>>

HookOpen ==
  /\ hook.es = "connecting"
  /\ hook' = [hook EXCEPT !.es = "open", !.isConnected = TRUE]
  /\ UNCHANGED <<storeVars, mainjs>>

\* useSSE.ts:24-33.
hookOnMessage(h, data) ==
  LET msg == JSONparse(data)
  IN IF msg.threw THEN h
     ELSE IF msg.type = "heartbeat" THEN h
     ELSE [h EXCEPT !.messages = hookSetMessages(@, msg.id)]

\* The transport delivers its next event, number appended + 1.
HookMessageNext ==
  /\ hook.es = "open" /\ appended < MaxAppend
  /\ hook' = hookOnMessage(hook, Frame(appended + 1))
  /\ appended' = appended + 1
  /\ UNCHANGED <<storeState, server, budget, quotaExceeded, mainjs>>

HookNoise(data) ==
  /\ hook.es = "open" /\ data \in Noise
  /\ hook' = hookOnMessage(hook, data)
  /\ UNCHANGED <<storeVars, mainjs>>

\* useSSE.ts:35-38: setIsConnected(false); eventSource.close().
HookError ==
  /\ hook.es \in {"connecting", "open"}
  /\ hook' = [hook EXCEPT !.es = "closed", !.isConnected = FALSE]
  /\ UNCHANGED <<storeVars, mainjs>>

\* useSSE.ts:46.
HookClearMessages ==
  /\ hook.messages # <<>>
  /\ hook' = [hook EXCEPT !.messages = <<>>]
  /\ UNCHANGED <<storeVars, mainjs>>

\* ------------------------------------------------------- the static page
\* main.js (triggerCascade, pollProgress, loadReport, setRunningState) and
\* sse.js (startSSE, addMessageToFeed), with the page's state:
\*   disabled      the trigger button's disabled attribute
\*   es            readyState of state.eventSource ("none" when unset)
\*   feed          the children of the feed container, first child first
\*   messageCount  state.messageCount
\*   awaiting      triggerCascade calls waiting for triggerCascadeRequest()
\*   active        the setInterval timers of pollProgress that are not cleared
\*   polls         fetchProgress() requests in flight, by timer and answer
\*   progress      the width of the progress bar
\*   reportData    state.reportData
\*   reportReqs    fetchReport() requests in flight, by answer
\*   retries       setTimeout(loadReport, 2000) timers pending
\*   uncaught      an exception left a handler of the page uncaught
Loops == 1..MaxLoops

InitMainjs ==
  [disabled |-> FALSE, es |-> "none", feed |-> <<>>, messageCount |-> 0,
   awaiting |-> 0, active |-> [l \in Loops |-> FALSE],
   polls |-> [l \in Loops |-> EmptyPolls], progress |-> 0,
   reportData |-> NoReport, reportReqs |-> EmptyReports, retries |-> 0,
   uncaught |-> FALSE]

MainInFlight(m) ==
  LET RECURSIVE Sum(_)
      Sum(S) == IF S = {} THEN 0
                ELSE LET l == CHOOSE l \in S : TRUE
                     IN BagSize(m.polls[l]) + Sum(S \ {l})
  IN m.awaiting + Sum(Loops) + BagSize(m.reportReqs) + m.retries

\* One callback of the static page.
MainStep(m) ==
  /\ MainInFlight(m) <= MaxInFlight
  /\ mainjs' = m
  /\ UNCHANGED <<storeState, appended, budget, quotaExceeded, hook>>

\* main.js setRunningState.
setRunningState(m, isRunning) ==
  IF isRunning THEN [m EXCEPT !.disabled = TRUE, !.feed = <<>>, !.messageCount = 0]
  ELSE [m EXCEPT !.disabled = FALSE]

\* sse.js startSSE: the held EventSource is closed and replaced.
startSSE(m) == [m EXCEPT !.es = "connecting"]

\* A timer slot is free when its timer is cleared and no request of it is
\* in flight.
FreeLoops(m) == { l \in Loops : ~m.active[l] /\ BagSize(m.polls[l]) = 0 }

\* main.js pollProgress: const interval = setInterval(..., 500).
pollProgress(m, l) == [m EXCEPT !.active[l] = TRUE]

\* main.js loadReport: fetchReport() is sent.
loadReport(m) == [m EXCEPT !.reportReqs = Bump(@, server.report)]

\* The click on the trigger button (a disabled button receives none):
\* setRunningState(true); startSSE(); the start call is sent.
triggerCascade ==
  /\ ~mainjs.disabled
  /\ MainStep([startSSE(setRunningState(mainjs, TRUE)) EXCEPT !.awaiting = @ + 1])
  /\ UNCHANGED server

\* The start call is answered by a server that starts the cascade, or it is
\* answered otherwise or rejected (the error is logged): pollProgress()
\* follows in every case.
MainTriggerOk(l) ==
  /\ mainjs.awaiting > 0 /\ l \in FreeLoops(mainjs)
  /\ \A k \in FreeLoops(mainjs) : l <= k
  /\ ~server.running /\ server.cascades < MaxCascades
  /\ server' = [running |-> TRUE, progress |-> 0, report |-> NoReport,
                cascades |-> server.cascades + 1]
  /\ MainStep(pollProgress([mainjs EXCEPT !.awaiting = @ - 1], l))

MainTriggerFailed(l) ==
  /\ mainjs.awaiting > 0 /\ l \in FreeLoops(mainjs)
  /\ \A k \in FreeLoops(mainjs) : l <= k
  /\ MainStep(pollProgress([mainjs EXCEPT !.awaiting = @ - 1], l))
  /\ UNCHANGED server

\* A tick of timer l: fetchProgress() is sent.
MainPollTick(l) ==
  /\ mainjs.active[l]
  /\ MainStep([mainjs EXCEPT !.polls[l] =
                 Bump(@, [running |-> server.running, progress |-> server.progress])])
  /\ UNCHANGED server

\* main.js:120-147, the answer to a request of timer l.
afterFetchProgress(m, l, data) ==
  LET m1 == [m EXCEPT !.polls[l] = Drop(@, data), !.progress = data.progress]
  IN IF ~data.running /\ data.progress >= 100
       THEN loadReport(setRunningState([m1 EXCEPT !.active[l] = FALSE], FALSE))
       ELSE m1

MainPollResponse(l, data) ==
  /\ mainjs.polls[l][data] > 0
  /\ MainStep(afterFetchProgress(mainjs, l, data))
  /\ UNCHANGED server

\* catch (e) {}
MainPollFailed(l, data) ==
  /\ mainjs.polls[l][data] > 0
  /\ MainStep([mainjs EXCEPT !.polls[l] = Drop(@, data)])
  /\ UNCHANGED server

\* main.js:154-155.
MainReportResponse(r) ==
  /\ mainjs.reportReqs[r] > 0
  /\ MainStep([mainjs EXCEPT !.reportReqs = Drop(@, r), !.reportData = r])
  /\ UNCHANGED server

\* main.js:156-159: setTimeout(loadReport, 2000).
MainReportFailed(r) ==
  /\ mainjs.reportReqs[r] > 0
  /\ MainStep([mainjs EXCEPT !.reportReqs = Drop(@, r), !.retries = @ + 1])
  /\ UNCHANGED server

MainReportRetry ==
  /\ mainjs.retries > 0
  /\ MainStep(loadReport([mainjs EXCEPT !.retries = @ - 1]))
  /\ UNCHANGED server

\* sse.js addMessageToFeed: the entry becomes the first child, and children
\* beyond 100 are removed from the end.
addMessageToFeed(m, msg) ==
  LET next == <<msg>> \o m.feed
  IN [m EXCEPT !.messageCount = @ + 1,
               !.feed = IF Len(next) > FEED_CHILDREN
                          THEN SubSeq(next, 1, FEED_CHILDREN) ELSE next]

\* sse.js:10-14: JSON.parse is called outside any try.
startSSEonmessage(m, data) ==
  LET msg == JSONparse(data)
  IN IF msg.threw THEN [m EXCEPT !.uncaught = TRUE]
     ELSE IF msg.type = "heartbeat" THEN m
     ELSE addMessageToFeed(m, msg.id)

MainOpen ==
  /\ mainjs.es = "connecting"
  /\ MainStep([mainjs EXCEPT !.es = "open"])
  /\ UNCHANGED server

MainMessage(data) ==
  /\ mainjs.es = "open"
  /\ data \in Noise \/ Len(mainjs.feed) < MaxFeed
  /\ MainStep(startSSEonmessage(mainjs, data))
  /\ UNCHANGED server

\* No onerror handler is set: the browser retries a lost connection and
\* closes a failed one.
MainError(fatal) ==
  /\ mainjs.es \in {"connecting", "open"}
  /\ MainStep([mainjs EXCEPT !.es = IF fatal THEN "closed" ELSE "connecting"])
  /\ UNCHANGED server

\* ---------------------------------------------------------- specifications
InitWith(pages, b, ctl) ==
  /\ progress = [t \in Tabs |-> DefaultProgress]
  /\ report = [t \in Tabs |-> NoReport]
  /\ messages = [t \in Tabs |-> <<>>]
  /\ connected = [t \in Tabs |-> FALSE]
  /\ controls = [t \in Tabs |-> ctl]
  /\ esRef = [t \in Tabs |-> NoConn]
  /\ readyState = [t \in Tabs |-> [c \in Conns |-> "none"]]
  /\ page = pages
  /\ pollTimer = [t \in Tabs |-> 0]
  /\ triggering = [t \in Tabs |-> FALSE]
  /\ pollReqs = [t \in Tabs |-> EmptyPolls]
  /\ reportReqs = [t \in Tabs |-> EmptyReports]
  /\ storage = JSONstringify([progress |-> DefaultProgress, report |-> NoReport,
                              messages |-> <<>>, controls |-> ctl])
  /\ inbox = [t \in Tabs |-> <<>>]
  /\ server = [running |-> FALSE, progress |-> 0, report |-> NoReport, cascades |-> 0]
  /\ appended = 0
  /\ budget = b
  /\ preTrigger = [t \in Tabs |-> DefaultSnapshot]
  /\ lastWrite = JSONstringify([progress |-> DefaultProgress, report |-> NoReport,
                                messages |-> <<>>, controls |-> ctl])
  /\ catalogueReqs =
       [t \in Tabs |-> IF pages[t] \in PollPages /\ ctl.productId = "" THEN 1 ELSE 0]
  /\ quotaExceeded = FALSE
  /\ seen = [t \in Tabs |-> {}]
  /\ hook = InitHook
  /\ mainjs = InitMainjs

\* The controls once the catalogue has been answered: its first product.
LoadedControls == [DefaultControls EXCEPT !.productId = Head(Catalogue)]

\* One tab, on the Dashboard with its catalogue loaded, driven through its
\* pages.
Init == InitWith([t \in Tabs |-> IF t = 1 THEN "dashboard" ELSE Closed], 0, LoadedControls)

Next ==
  \/ \E t \in Tabs : handleTrigger(t)
  \/ \E t \in Tabs : TriggerOk(t)
  \/ \E t \in Tabs : TriggerFailed(t)
  \/ \E t \in Tabs : PollTick(t)
  \/ \E t \in Tabs, p \in ProgressSnapshots : PollResponse(t, p)
  \/ \E t \in Tabs, p \in ProgressSnapshots : PollFailed(t, p)
  \/ \E t \in Tabs, r \in Reports : ReportResponse(t, r)
  \/ \E t \in Tabs, r \in Reports : ReportFailed(t, r)
  \/ \E t \in Tabs, pg \in Pages : Navigate(t, pg)
  \/ \E t \in Tabs, c \in Conns : onopen(t, c)
  \/ \E t \in Tabs, c \in Conns, e \in Events : onmessage(t, c, e)
  \/ \E t \in Tabs, c \in Conns, fatal \in BOOLEAN : onerror(t, c, fatal)
  \/ \E t \in Tabs : DisconnectStream(t)
  \/ \E t \in Tabs : Reload(t)
  \/ \E t \in Tabs : CatalogueResponse(t)
  \/ \E t \in Tabs : CatalogueFailed(t)
  \/ ServerFinish

Spec == Init /\ [][Next]_vars

\* The same tab from its construction: no product is selected yet and the
\* Dashboard's catalogue request is in flight.
InitFresh ==
  InitWith([t \in Tabs |-> IF t = 1 THEN "dashboard" ELSE Closed], 0, DefaultControls)

SpecFresh == InitFresh /\ [][Next]_vars

\* Two tabs on a page without effects of its own; consumers call the store's
\* operations, at most MaxMutations times in all.
InitTabs == InitWith([t \in Tabs |-> "agents"], MaxMutations, DefaultControls)

NextTabs ==
  \/ \E t \in Tabs, p \in ProgressInputs : SetProgress(t, p)
  \/ \E t \in Tabs, r \in ReportInputs : SetReport(t, r)
  \/ \E t \in Tabs, e \in Events : AppendMessage(t, e)
  \/ \E t \in Tabs : ClearMessages(t)
  \/ \E t \in Tabs, u \in ControlUpdates : SetControls(t, u)
  \/ \E t \in Tabs : StorageEvent(t)
  \/ \E t \in Tabs : ReloadTab(t)

SpecTabs == InitTabs /\ [][NextTabs]_vars

\* Two tabs that mutate and merge, each mutation's write recorded.
NextRace ==
  \/ \E t \in Tabs : MutateRecorded(t)
  \/ \E t \in Tabs : StorageEvent(t)

SpecRace == InitTabs /\ [][NextRace]_vars

\* The same two tabs on a substrate that refuses writes at times.
NextQuota ==
  \/ \E t \in Tabs, p \in ProgressInputs : SetProgress(t, p)
  \/ \E t \in Tabs, r \in ReportInputs : SetReport(t, r)
  \/ \E t \in Tabs, e \in Events : AppendMessage(t, e)
  \/ \E t \in Tabs : ClearMessages(t)
  \/ \E t \in Tabs, u \in ControlUpdates : SetControls(t, u)
  \/ \E t \in Tabs : StorageEvent(t)
  \/ \E t \in Tabs : ReloadTab(t)
  \/ QuotaChange

SpecQuota == InitTabs /\ [][NextQuota]_vars

\* Two tabs that mutate and merge (no reload), with the browser dispatching
\* every queued storage event.
NextConverge ==
  \/ \E t \in Tabs, p \in ProgressInputs : SetProgress(t, p)
  \/ \E t \in Tabs, r \in ReportInputs : SetReport(t, r)
  \/ \E t \in Tabs, e \in Events : AppendMessage(t, e)
  \/ \E t \in Tabs : ClearMessages(t)
  \/ \E t \in Tabs, u \in ControlUpdates : SetControls(t, u)
  \/ \E t \in Tabs : StorageEvent(t)

SpecConverge ==
  /\ InitTabs /\ [][NextConverge]_vars
  /\ \A t \in Tabs : WF_vars(StorageEvent(t))

\* One tab on the Dashboard through cascades whose start call may fail; the
\* store each trigger found is recorded.
NextTrigger ==
  \/ \E t \in Tabs : handleTriggerRecorded(t)
  \/ \E t \in Tabs : TriggerOk(t)
  \/ \E t \in Tabs : TriggerFailed(t)
  \/ \E t \in Tabs : PollTick(t)
  \/ \E t \in Tabs, p \in ProgressSnapshots : PollResponse(t, p)
  \/ \E t \in Tabs, r \in Reports : ReportResponse(t, r)
  \/ \E t \in Tabs, c \in Conns : onopen(t, c)
  \/ \E t \in Tabs, c \in Conns, e \in Events : onmessage(t, c, e)
  \/ ServerFinish

SpecTrigger == Init /\ [][NextTrigger]_vars

\* One tab on the Dashboard through cascades during which at most
\* MaxMutations progress requests fail.
InitPollFaults ==
  InitWith([t \in Tabs |-> IF t = 1 THEN "dashboard" ELSE Closed], MaxMutations,
           LoadedControls)

NextPollFaults ==
  \/ \E t \in Tabs : handleTrigger(t)
  \/ \E t \in Tabs : TriggerOk(t)
  \/ \E t \in Tabs : PollTick(t)
  \/ \E t \in Tabs, p \in ProgressSnapshots : PollResponse(t, p)
  \/ \E t \in Tabs, p \in ProgressSnapshots : PollFailedCounted(t, p)
  \/ \E t \in Tabs, r \in Reports : ReportResponse(t, r)
  \/ ServerFinish

SpecPollFaults == InitPollFaults /\ [][NextPollFaults]_vars

\* One tab on the Dashboard through cascades of which a single report
\* request fails. Timers fire, requests are answered and the remote process
\* ends its cascade; clicks are up to the user.
InitReportFault ==
  InitWith([t \in Tabs |-> IF t = 1 THEN "dashboard" ELSE Closed], 1,
           LoadedControls)

NextReportFault ==
  \/ \E t \in Tabs : handleTrigger(t)
  \/ \E t \in Tabs : TriggerOk(t)
  \/ \E t \in Tabs : PollTick(t)
  \/ \E t \in Tabs, p \in ProgressSnapshots : PollResponse(t, p)
  \/ \E t \in Tabs, r \in Reports : ReportResponse(t, r)
  \/ \E t \in Tabs, r \in Reports : ReportFailedCounted(t, r)
  \/ ServerFinish

SpecReportFault ==
  /\ InitReportFault /\ [][NextReportFault]_vars
  /\ \A t \in Tabs :
       /\ WF_vars(TriggerOk(t))
       /\ WF_vars(PollTick(t))
       /\ WF_vars(\E p \in ProgressSnapshots : PollResponse(t, p))
       /\ WF_vars(\E r \in Reports : ReportResponse(t, r))
  /\ WF_vars(ServerFinish)

\* One tab whose buffer receives the events 1, 2, 3, ...
InitAppend ==
  InitWith([t \in Tabs |-> IF t = 1 THEN "agents" ELSE Closed], 0, DefaultControls)

NextAppend == \E t \in Tabs : AppendNext(t)

SpecAppend == InitAppend /\ [][NextAppend]_vars

\* Two tabs sharing the substrate while events 1, 2, 3, ... are appended in
\* either, each once the storage events of the previous ones are dispatched:
\* the buffer is also set by the storage listener and by reloads.
AppendQuiet(t) == AppendNext(t) /\ \A u \in Tabs : inbox[u] = <<>>

NextBound ==
  \/ \E t \in Tabs : AppendQuiet(t)
  \/ \E t \in Tabs : StorageEvent(t)
  \/ \E t \in Tabs : ReloadTab(t)

SpecBound == InitTabs /\ [][NextBound]_vars

\* The hook alone, mounted in a component whose isRunning changes, receiving
\* the events 1, 2, 3, ... and noise.
InitLegacy == InitWith([t \in Tabs |-> Closed], 0, DefaultControls)

NextHook ==
  \/ \E b \in BOOLEAN : HookRender(b)
  \/ HookOpen
  \/ HookMessageNext
  \/ \E data \in Noise : HookNoise(data)
  \/ HookError
  \/ HookClearMessages

SpecHook == InitLegacy /\ [][NextHook]_vars

\* The static page alone, with the remote process.
NextMain ==
  \/ triggerCascade
  \/ \E l \in Loops : MainTriggerOk(l)
  \/ \E l \in Loops : MainTriggerFailed(l)
  \/ \E l \in Loops : MainPollTick(l)
  \/ \E l \in Loops, data \in ProgressSnapshots : MainPollResponse(l, data)
  \/ \E l \in Loops, data \in ProgressSnapshots : MainPollFailed(l, data)
  \/ \E r \in Reports : MainReportResponse(r)
  \/ \E r \in Reports : MainReportFailed(r)
  \/ MainReportRetry
  \/ MainOpen
  \/ \E data \in Frames : MainMessage(data)
  \/ \E fatal \in BOOLEAN : MainError(fatal)
  \/ ServerFinish

SpecMain == InitLegacy /\ [][NextMain]_vars

\* One tab that stays on the Dashboard, with a remote process that ends each
\* cascade and a network on which every request is answered.
NextLive ==
  \/ \E t \in Tabs : handleTrigger(t)
  \/ \E t \in Tabs : TriggerOk(t)
  \/ \E t \in Tabs : TriggerFailed(t)
  \/ \E t \in Tabs : PollTick(t)
  \/ \E t \in Tabs, p \in ProgressSnapshots : PollResponse(t, p)
  \/ \E t \in Tabs, r \in Reports : ReportResponse(t, r)
  \/ ServerFinish

SpecLive ==
  /\ Init /\ [][NextLive]_vars
  /\ \A t \in Tabs :
       /\ WF_vars(TriggerOk(t) \/ TriggerFailed(t))
       /\ WF_vars(PollTick(t))
       /\ WF_vars(\E p \in ProgressSnapshots : PollResponse(t, p))
       /\ WF_vars(\E r \in Reports : ReportResponse(t, r))
  /\ WF_vars(ServerFinish)

\* One tab of the store that is never triggered, beside the static page:
\* another client of the same backend, which starts cascades there.
NextIdle ==
  \/ \E t \in Tabs, pg \in Pages : Navigate(t, pg)
  \/ \E t \in Tabs, r \in Reports : ReportResponse(t, r)
  \/ \E t \in Tabs, r \in Reports : ReportFailed(t, r)
  \/ triggerCascade
  \/ \E l \in Loops : MainTriggerOk(l)
  \/ \E l \in Loops : MainPollTick(l)
  \/ \E l \in Loops, data \in ProgressSnapshots : MainPollResponse(l, data)
  \/ \E r \in Reports : MainReportResponse(r)
  \/ ServerFinish

SpecIdle == Init /\ [][NextIdle]_vars

\* Two tabs whose key is also written by other scripts of the origin.
NextForeign ==
  \/ \E t \in Tabs, u \in ControlUpdates : SetControls(t, u)
  \/ \E ev \in ForeignEvents : ForeignWrite(ev)
  \/ \E t \in Tabs : StorageEvent(t)
  \/ \E t \in Tabs : ReloadTab(t)

SpecForeign == InitTabs /\ [][NextForeign]_vars

\* Two tabs that append the events of the stream, MaxInbox of them in all,
\* and merge each other's snapshots.
InitStreams == InitWith([t \in Tabs |-> "agents"], MaxInbox, DefaultControls)

NextStreams ==
  \/ \E t \in Tabs : AppendCounted(t)
  \/ \E t \in Tabs : StorageEvent(t)

SpecStreams == InitStreams /\ [][NextStreams]_vars

\* Two tabs that stream the same cascade: tab 1 triggers it on the
\* Dashboard, tab 2 learns of it by the merge, and the stream delivers each
\* event to each tab at most once.
InitShared ==
  InitWith([t \in Tabs |-> IF t = 1 THEN "dashboard" ELSE "agents"], 0,
           LoadedControls)

NextShared ==
  \/ \E t \in Tabs : handleTrigger(t)
  \/ \E t \in Tabs : TriggerOk(t)
  \/ \E t \in Tabs : StorageEvent(t)
  \/ \E t \in Tabs, c \in Conns : onopen(t, c)
  \/ \E t \in Tabs, c \in Conns, e \in Events : onmessageOnce(t, c, e)

SpecShared == InitShared /\ [][NextShared]_vars

\* The same two tabs before any event is streamed; one of them is reloaded,
\* once.
InitLocal ==
  InitWith([t \in Tabs |-> IF t = 1 THEN "dashboard" ELSE "agents"], 1,
           LoadedControls)

NextLocal ==
  \/ \E t \in Tabs : handleTrigger(t)
  \/ \E t \in Tabs : TriggerOk(t)
  \/ \E t \in Tabs : StorageEvent(t)
  \/ \E t \in Tabs, c \in Conns : onopen(t, c)
  \/ \E t \in Tabs : ReloadTab(t)

SpecLocal == InitLocal /\ [][NextLocal]_vars

\* ------------------------------------------------------------------ claims
Running(t) == progress[t].running

Live(t) == { c \in Conns : readyState[t][c] \in {"connecting", "open"} }

\* C1 (SpecAppend): starting from an empty buffer, after N appendMessage
\* calls the buffer holds exactly min(N, MAX_MESSAGES) events, and they are
\* the last min(N, MAX_MESSAGES) appended, oldest first.
C1_Bounding ==
  \A t \in Tabs : Open(t) =>
    /\ Len(messages[t]) = Min(appended, MAX_MESSAGES)
    /\ \A i \in 1..Len(messages[t]) :
         messages[t][i] = appended - Len(messages[t]) + i

\* C1's case: more events were appended than the buffer holds, and the
\* oldest ones are gone.
C1_Witness ==
  /\ appended = MAX_MESSAGES + 2
  /\ Len(messages[1]) = MAX_MESSAGES
  /\ messages[1][1] = 3

\* C2 (as claimed): a report never co-occurs with running == true.
C2_Legality == \A t \in Tabs : report[t] # NoReport => ~Running(t)

\* C3 (as claimed): the store a reload constructs from the persisted snapshot
\* satisfies report != null => running == false.
C3_LegalAfterReload ==
  [][\A t \in Tabs : Reload(t) => (report'[t] # NoReport => ~progress'[t].running)]_vars

Stored ==
  [progress |-> storage.progress, report |-> storage.report,
   messages |-> storage.messages, controls |-> storage.controls]

Last(q) == q[Len(q)]

\* C4 (SpecTabs): whenever a tab persists a changed snapshot, every other tab
\* is notified with exactly that snapshot; and a tab that receives the
\* snapshot another tab holds ends the notification with progress, report,
\* messages and controls equal to that tab's.
C4_Convergence ==
  [][/\ storage' # storage =>
          \E a \in Tabs :
            /\ storage' = JSONstringify(SnapshotOf(a)')
            /\ \A b \in Tabs \ {a} :
                 /\ inbox'[b] # <<>>
                 /\ Last(inbox'[b]).newValue = storage'
     /\ \A a, b \in Tabs :
          ( /\ a # b
            /\ inbox[b] # <<>>
            /\ Head(inbox[b]).newValue = JSONstringify(SnapshotOf(a))
            /\ StorageEvent(b) )
          => SnapshotOf(b)' = SnapshotOf(a)']_vars

\* C4's case: after one mutation of tab 1, persisted and delivered, tab 2
\* holds tab 1's changed snapshot.
C4_Witness ==
  /\ budget = MaxMutations - 1
  /\ inbox[1] = <<>> /\ inbox[2] = <<>>
  /\ SnapshotOf(1) # DefaultSnapshot
  /\ SnapshotOf(2) = SnapshotOf(1)
  /\ storage = JSONstringify(SnapshotOf(1))

\* Both tabs hold the stored snapshot and no notification is pending.
Converged ==
  \A t \in Tabs : inbox[t] = <<>> /\ JSONstringify(SnapshotOf(t)) = storage

\* C5 (as claimed, SpecConverge): once the local mutations have stopped, the
\* tabs reach, and stay in, a state where both hold the stored snapshot and
\* nothing is pending.
C5_EventuallyConsistent == <>[]Converged

\* C6 (SpecTabs): a store constructed on the key holds, field for field, the
\* snapshot that was stored under it.
C6_RoundTrip ==
  [][\A t \in Tabs : ReloadTab(t) => SnapshotOf(t)' = Stored]_vars

\* C6's case: a tab was reloaded over a snapshot other than the initial one
\* (the other tab was notified of the initial values, then of the snapshot)
\* and holds it.
C6_Witness ==
  /\ storage # JSONstringify(DefaultSnapshot)
  /\ SnapshotOf(1) = Stored
  /\ Len(inbox[2]) >= 2
  /\ inbox[2][Len(inbox[2]) - 1].newValue = JSONstringify(DefaultSnapshot)
  /\ Last(inbox[2]).newValue = storage

\* C7 (as claimed): once a tick has been answered running = false no further
\* progress poll is started, and a report fetch is issued only by the response
\* that ends the run.
C7_PollerTerminates ==
  [][\A t \in Tabs :
       /\ PollTick(t) => \A p \in ProgressSnapshots : pollReqs[t][p] > 0 => p.running
       /\ \A p \in ProgressSnapshots :
            (PollResponse(t, p) /\ "getReport" \in Range(AfterPollResponse(t, p).calls))
            => Running(t)]_vars

\* C8 (as claimed): a transport error while running is followed by a new
\* connectStream call (the effect that follows the error handler makes it).
C8_AutoReconnect ==
  [][\A t \in Tabs, c \in Conns, fatal \in BOOLEAN :
       (onerror(t, c, fatal) /\ Running(t))
       => "connectStream" \in Range(AfterError(t, c, fatal).calls)]_vars

\* C9 (as claimed): while running, the store holds a connection handle.
C9_RunningHoldsConnection ==
  \A t \in Tabs : (Open(t) /\ Running(t)) => esRef[t] # NoConn

\* C10 (Spec): a tab never has two EventSource objects that are not closed,
\* and one that is not closed is the one the store holds.
C10_NoLeak ==
  \A t \in Tabs : Cardinality(Live(t)) <= 1 /\ Live(t) \subseteq {esRef[t]}

\* C10's case: the second cascade's connect replaced the connection held
\* since the first one, and the new connection is open.
C10_Witness ==
  /\ server.cascades = 2
  /\ Running(1) /\ connected[1]
  /\ esRef[1] # NoConn /\ readyState[1][esRef[1]] = "open"

\* C11 (as claimed): when the start call fails, the store ends idle (not
\* running, no report) and no poller is active.
C11_TriggerFailureIdle ==
  [][\A t \in Tabs :
       TriggerFailed(t) =>
         /\ ~progress'[t].running
         /\ report'[t] = NoReport
         /\ pollTimer'[t] = 0]_vars

\* C12 (as claimed): progress, report, messages and controls after a failed
\* trigger are what they were just before the trigger was called.
C12_FailedTriggerRestores ==
  [][\A t \in Tabs :
       TriggerFailed(t) => SnapshotOf(t)' = preTrigger[t]]_vars

\* C13 (as claimed): after disconnectStream, in whatever state it is called,
\* connected is false and the store holds no connection: none is referenced
\* and none of the tab's EventSource objects is still live.
C13_DisconnectLeavesNone ==
  [][\A t \in Tabs :
       DisconnectStream(t) =>
         /\ ~connected'[t]
         /\ esRef'[t] = NoConn
         /\ \A c \in Conns : readyState'[t][c] \notin {"connecting", "open"}]_vars

\* C14 (SpecBound): in every reachable state the buffer of every store holds
\* at most MAX_MESSAGES events, whether it was last set by appendMessage, by
\* the rehydration or by the storage listener.
C14_BufferBound ==
  \A t \in Tabs : Len(messages[t]) <= MAX_MESSAGES

\* C14's case: more than MAX_MESSAGES events were appended, a reload has
\* happened, and both tabs hold the full buffer found in storage.
C14_Witness ==
  /\ appended > MAX_MESSAGES
  /\ budget < MaxMutations
  /\ inbox[1] = <<>> /\ inbox[2] = <<>>
  /\ Len(storage.messages) = MAX_MESSAGES
  /\ messages[1] = storage.messages /\ messages[2] = storage.messages

\* Events are numbered in the order the transport delivers them.
OldestFirst(q) == \A i, j \in DOMAIN q : i < j => q[i] < q[j]

\* C15 (as claimed, SpecHook): the buffer holds the forwarded events in the
\* order the transport delivered them, oldest first and newest last, also
\* when they arrived over different connections.
C15_ArrivalOrder ==
  /\ OldestFirst(hook.messages)
  /\ \A t \in Tabs : OldestFirst(messages[t])

ActiveLoops == { l \in Loops : mainjs.active[l] }

\* C17 (as claimed, SpecMain): at most one progress-polling timer is active
\* at any time, whatever triggers and poll completions came before.
C17_OnePollingLoop ==
  /\ Cardinality(ActiveLoops) <= 1
  /\ \A t \in Tabs : pollTimer[t] <= 1

\* C18 (as claimed, SpecMain): a frame that is not JSON, or a heartbeat, is
\* discarded without a trace: the feed and the rest of the page's state are
\* as before and no error is raised; any other frame is put in the feed once.
C18_NoiseAbsorbed ==
  [][\A data \in Frames :
       MainMessage(data) =>
         IF data \in Noise
           THEN mainjs'.feed = mainjs.feed /\ ~mainjs'.uncaught
           ELSE /\ Len(mainjs'.feed) = Len(mainjs.feed) + 1
                /\ data.id \in Range(mainjs'.feed)]_vars

\* C19 (as claimed, SpecFresh): the controls of a store change only in a
\* setControls call made for a user's input, in the rehydration of a
\* constructed store, or in the storage listener; stream events, connects
\* and disconnects, polls, report answers and loads of the catalogue leave
\* them as they are.
C19_ControlsFrame ==
  [][\A t \in Tabs :
       controls'[t] # controls[t] =>
         \/ \E u \in ControlUpdates : SetControls(t, u)
         \/ Reload(t)
         \/ StorageEvent(t)]_vars

\* C20 (SpecQuota): while the substrate refuses writes, a mutation of the
\* store raises no error and leaves progress, report, messages and controls
\* as the setter computes them, and the stored value and the notifications
\* stay as they were.
C20_WriteFaultAbsorbed ==
  [][quotaExceeded =>
       /\ storage' = storage
       /\ \A t \in Tabs : Len(inbox'[t]) <= Len(inbox[t])
       /\ \A t \in Tabs :
            /\ \A p \in ProgressInputs :
                 /\ Open(t) => AfterSetProgress(t, p).ok
                 /\ SetProgress(t, p) =>
                      SnapshotOf(t)' = [SnapshotOf(t) EXCEPT !.progress = p]
            /\ \A r \in ReportInputs :
                 SetReport(t, r) =>
                   SnapshotOf(t)' = [SnapshotOf(t) EXCEPT !.report = r]
            /\ \A e \in Events :
                 AppendMessage(t, e) =>
                   SnapshotOf(t)' = [SnapshotOf(t) EXCEPT !.messages = appendMessage(@, e)]
            /\ ClearMessages(t) =>
                 SnapshotOf(t)' = [SnapshotOf(t) EXCEPT !.messages = <<>>]
            /\ \A u \in ControlUpdates :
                 SetControls(t, u) =>
                   SnapshotOf(t)' = [SnapshotOf(t) EXCEPT !.controls = setControls(@, u)]]_vars

\* C20's case: a mutation was made while the substrate refused the write;
\* the store holds the new value and the substrate the one from before.
C20_Witness ==
  /\ quotaExceeded
  /\ budget = MaxMutations - 1
  /\ storage = JSONstringify(DefaultSnapshot)
  /\ inbox[1] = <<>> /\ inbox[2] = <<>>
  /\ SnapshotOf(1) # DefaultSnapshot

\* No storage event waits to be dispatched.
Quiet == \A t \in Tabs : inbox[t] = <<>>

\* C21 (as claimed, SpecRace): once the notifications have been processed,
\* both tabs hold the snapshot of the mutation the substrate saw last, also
\* when the two tabs wrote different snapshots before either was notified.
C21_LastWriteWins ==
  Quiet => \A t \in Tabs : JSONstringify(SnapshotOf(t)) = lastWrite

\* C22 (as claimed, SpecTrigger): when the start call has succeeded the
\* store has no report, progress is {running: true, progress: 0}, a stream
\* connection has been opened and is held, and the store was not running
\* while the call was awaited.
C22_SuccessfulTrigger ==
  [][\A t \in Tabs :
       TriggerOk(t) =>
         /\ ~Running(t)
         /\ report'[t] = NoReport
         /\ progress'[t] = [running |-> TRUE, progress |-> 0]
         /\ esRef'[t] # NoConn
         /\ readyState'[t][esRef'[t]] = "connecting"
         /\ "connectStream" \in Range(AfterTriggerOk(t).calls)]_vars

\* The storage events queued for tab u by the step being taken.
Queued(u) == { inbox'[u][i] : i \in (Len(inbox[u]) + 1)..Len(inbox'[u]) }

\* C23 (as claimed, SpecTabs): constructing a store on a substrate that
\* holds a snapshot other than the default state sends no other tab a
\* notification carrying the default state.
C23_RehydrationFirst ==
  [][\A t \in Tabs :
       (ReloadTab(t) /\ Stored # DefaultSnapshot) =>
         \A u \in Tabs \ {t} :
           \A ev \in Queued(u) : ev.newValue # JSONstringify(DefaultSnapshot)]_vars

\* C24 (Spec): in a single tab whose writes succeed, after every callback
\* and the effects it causes the stored snapshot is the projection
\* {progress, report, messages, controls} of the store's state.
C24_PersistenceTracksState ==
  \A t \in Tabs : Open(t) => (storage.kind = "json" /\ Stored = SnapshotOf(t))

\* C24's case: a cascade has run to its end in the tab; the events it
\* streamed, its final progress and its report are in the store and in the
\* substrate.
C24_Witness ==
  /\ ~Running(1) /\ progress[1].progress = 100
  /\ report[1] # NoReport
  /\ messages[1] # <<>>
  /\ Stored = SnapshotOf(1)

\* C25 (as claimed): after a transport error, in whatever state of the
\* store, connected is false and the connection that erred is closed (it is
\* neither open nor being re-established), so it can deliver nothing more.
\* When the step also makes a new connection, the old one was closed for it.
C25_ErrorClosesConnection ==
  [][\A t \in Tabs, c \in Conns, fatal \in BOOLEAN :
       onerror(t, c, fatal) =>
         /\ ~connected'[t]
         /\ \/ "connectStream" \in Range(AfterError(t, c, fatal).calls)
            \/ readyState'[t][c] \notin {"connecting", "open"}]_vars

\* C26 (as claimed): the answer to a progress request that arrives when the
\* tab's polling loop is stopped is discarded: progress and report stay as
\* they are and no report fetch is started.
C26_LateResultDiscarded ==
  [][\A t \in Tabs, p \in ProgressSnapshots :
       (PollResponse(t, p) /\ pollTimer[t] = 0) =>
         /\ progress'[t] = progress[t]
         /\ report'[t] = report[t]
         /\ "getReport" \notin Range(AfterPollResponse(t, p).calls)]_vars

\* C27 (SpecPollFaults): a failed progress request raises no error and
\* leaves progress, report, messages, controls and the polling timer as they
\* are; and a tick of the timer sends a progress request whatever failed
\* before it.
C27_PollFailureSwallowed ==
  [][\A t \in Tabs :
       /\ \A p \in ProgressSnapshots :
            /\ (Open(t) /\ pollReqs[t][p] > 0) => AfterPollFailed(t, p).ok
            /\ PollFailedCounted(t, p) =>
                 /\ SnapshotOf(t)' = SnapshotOf(t)
                 /\ pollTimer'[t] = pollTimer[t]
                 /\ reportReqs'[t] = reportReqs[t]
       /\ PollTick(t) => BagSize(pollReqs'[t]) = BagSize(pollReqs[t]) + 1]_vars

\* C27's case: MaxMutations requests of a running cascade have failed, the
\* loop is still active and the request of a further tick is in flight.
C27_Witness ==
  /\ budget = 0
  /\ Running(1) /\ pollTimer[1] = 1
  /\ BagSize(pollReqs[1]) > 0

\* C28 (SpecReportFault): when the report request sent on completion fails
\* and every later request succeeds, the retry installs the report: a store
\* that completed without a report gets one (or is started again).
C28_RetryInstallsReport ==
  \A t \in Tabs :
    (/\ Open(t) /\ ~triggering[t]
     /\ ~Running(t) /\ progress[t].progress = 100 /\ report[t] = NoReport)
      ~> (report[t] # NoReport \/ triggering[t] \/ Running(t))

\* C29 (Spec): in every state of an open tab a polling timer exists if and
\* only if progress.running is true, whichever page is mounted.
C29_PollerIffRunning ==
  \A t \in Tabs : Open(t) => (pollTimer[t] > 0 <=> Running(t))

\* C30 (SpecLive): a running store eventually is completed (running false,
\* a report installed) with its polling loop stopped.
C30_CompletionLiveness ==
  \A t \in Tabs :
    Running(t) ~> (~Running(t) /\ report[t] # NoReport /\ pollTimer[t] = 0)

\* C31 (SpecIdle): a store that was never triggered (no poll ever reported
\* the end of a cascade it was running) never acquires a report.
C31_IdleStoreHasNoReport ==
  \A t \in Tabs : (Open(t) /\ ~Running(t) /\ progress[t].progress = 0) =>
    report[t] = NoReport

\* C32 (SpecForeign): when the value under the key is absent, empty or not
\* valid JSON, readStorage yields null without throwing, and a tab
\* constructed then starts in the default idle state: running false,
\* progress 0, no report, no messages, default controls, not connected.
C32_MalformedIsHarmless ==
  [][\A t \in Tabs : (Open(t) /\ storage.kind # "json") =>
       /\ readStorage(storage).isNull /\ ~readStorage(storage).threw
       /\ AfterReload(t).ok
       /\ ReloadTab(t) =>
            /\ SnapshotOf(t)' = DefaultSnapshot
            /\ ~connected'[t] /\ esRef'[t] = NoConn]_vars

\* C32's case: a text that is not JSON was stored, tab 1 was constructed
\* over it and wrote its default state; tab 2 was told of both.
C32_Witness ==
  /\ SnapshotOf(1) = DefaultSnapshot
  /\ storage = JSONstringify(DefaultSnapshot)
  /\ inbox[2] = << [key |-> STORAGE_KEY, newValue |-> RawGarbage],
                   [key |-> STORAGE_KEY, newValue |-> JSONstringify(DefaultSnapshot)] >>

\* C33 (SpecForeign): a storage event for another key, with an absent or
\* empty new value, or with a new value that is not JSON raises no error and
\* leaves progress, report, messages and controls of the receiving tab as
\* they are.
C33_ExternalChangeFiltered ==
  [][\A t \in Tabs :
       (/\ Open(t) /\ inbox[t] # <<>>
        /\ \/ Head(inbox[t]).key # STORAGE_KEY
           \/ Head(inbox[t]).newValue.kind \in {"absent", "empty", "garbage"}) =>
         /\ AfterStorageEvent(t).ok
         /\ StorageEvent(t) => SnapshotOf(t)' = SnapshotOf(t)]_vars

\* C33's case: tab 1 changed its controls, a text that is not JSON was
\* then stored by another script, and tab 1 has handled the notification.
C33_Witness ==
  /\ controls[1].quantity = 2
  /\ storage = RawGarbage
  /\ inbox[1] = <<>>
  /\ budget = 0

\* C34 (SpecTabs): setControls gives the named field its value and leaves
\* every other field of the controls, and progress, report, messages and
\* connected, as they were; the merged controls are what the substrate
\* holds afterwards; and two updates of different fields give the same
\* controls in either order.
C34_ControlsShallowMerge ==
  [][\A t \in Tabs :
       /\ \A u \in ControlUpdates : SetControls(t, u) =>
            /\ controls'[t][u.field] = u.value
            /\ \A f \in DOMAIN DefaultControls \ {u.field} :
                 controls'[t][f] = controls[t][f]
            /\ progress'[t] = progress[t] /\ report'[t] = report[t]
            /\ messages'[t] = messages[t] /\ connected'[t] = connected[t]
            /\ storage'.kind = "json" /\ storage'.controls = controls'[t]
       /\ \A u1, u2 \in ControlUpdates : u1.field # u2.field =>
            setControls(setControls(controls[t], u1), u2)
              = setControls(setControls(controls[t], u2), u1)]_vars

\* C34's case: both fields of tab 1 were updated, one call after the other.
C34_Witness ==
  /\ controls[1] = [DefaultControls EXCEPT !.productId = "P1", !.quantity = 2]
  /\ storage.kind = "json" /\ storage.controls = controls[1]
  /\ budget = 0

\* C35 (SpecStreams): once every storage event is delivered, every event
\* that either tab appended is in the buffer of both tabs (fewer events are
\* appended than the buffer holds, and none is cleared).
C35_NoEventLost ==
  Quiet => \A t \in Tabs : \A e \in 1..appended : e \in Range(messages[t])

\* C36 (SpecShared): when the stream delivers each event to a tab at most
\* once, no buffer holds two events with the same message_id.
C36_NoDuplicates ==
  \A t \in Tabs : \A i, j \in DOMAIN messages[t] :
    i # j => messages[t][i] # messages[t][j]

\* C37 (as claimed): a cross-context merge leaves the held connection
\* handle as it is.
C37_MergeKeepsHandle ==
  [][\A t \in Tabs : StorageEvent(t) =>
       (esRef'[t] = esRef[t] /\ readyState'[t] = readyState[t])]_vars

\* C37 (SpecLocal): a cross-context merge leaves connected as it is, and
\* leaves the held connection and the tab's EventSource objects as they are
\* unless it turns running from false to true in a tab that is not
\* connected, where the auto-reconnect effect calls connectStream; a tab
\* constructed over a stored snapshot is not connected, and holds a
\* connection only when the rehydrated snapshot is running; and no stored or
\* notified snapshot text has a connected field.
C37_ConnectionTabLocal ==
  [][\A t \in Tabs :
       /\ ReloadTab(t) =>
            /\ ~connected'[t]
            /\ esRef'[t] # NoConn => progress'[t].running
       /\ StorageEvent(t) =>
            /\ connected'[t] = connected[t]
            /\ (esRef'[t] # esRef[t] \/ readyState'[t] # readyState[t]) =>
                 /\ ~Running(t) /\ progress'[t].running /\ ~connected[t]
                 /\ "connectStream" \in Range(AfterStorageEvent(t).calls)
       /\ storage'.kind = "json" => "connected" \notin DOMAIN storage'
       /\ \A i \in DOMAIN inbox'[t] :
            inbox'[t][i].newValue.kind = "json" =>
              "connected" \notin DOMAIN inbox'[t][i].newValue]_vars

\* C37's case: tab 2 connected itself when the merge told it of the running
\* cascade, and has since adopted, by another merge, the idle snapshot that
\* the reloaded tab 1 wrote; its connection is the one it had.
C37_Witness ==
  /\ connected[2] /\ esRef[2] # NoConn /\ readyState[2][esRef[2]] = "open"
  /\ ~Running(2)
  /\ budget = 0

\* C38 (as claimed): a connection dropped while the store is not running is
\* not reopened: after the error the store has called no connectStream and
\* none of the tab's EventSource objects is open or being opened.
C38_IdleDropStaysClosed ==
  [][\A t \in Tabs, c \in Conns, fatal \in BOOLEAN :
       (onerror(t, c, fatal) /\ ~Running(t)) =>
         /\ "connectStream" \notin Range(AfterError(t, c, fatal).calls)
         /\ \A d \in Conns : readyState'[t][d] \notin {"connecting", "open"}]_vars

\* C39 (SpecHook): the hook has a connection that is open or being opened
\* only while isRunning is true, and isConnected only while it is open; the
\* connection is made when isRunning becomes true and is closed, with
\* isConnected false, when isRunning becomes false and on a transport error;
\* the list never has more than HOOK_MESSAGES entries, and they are the
\* events received last (since the list was cleared), one entry each.
C39_HookStream ==
  [][/\ hook.es \in {"connecting", "open"} => hook.isRunning
     /\ hook.isConnected => hook.es = "open"
     /\ Len(hook.messages) <= HOOK_MESSAGES
     /\ \A i \in DOMAIN hook.messages : hook.messages[i] = appended - i + 1
     /\ HookRender(TRUE) => hook'.es = "connecting"
     /\ (HookRender(FALSE) \/ HookError) =>
          (hook'.es \notin {"connecting", "open"} /\ ~hook'.isConnected)
     /\ HookMessageNext =>
          Len(hook'.messages) = Min(Len(hook.messages) + 1, HOOK_MESSAGES)]_vars

\* C39's case: the hook is connected and has received more events than its
\* list holds: the list is full and its oldest entries were dropped.
C39_Witness ==
  /\ hook.isRunning /\ hook.es = "open" /\ hook.isConnected
  /\ appended > HOOK_MESSAGES
  /\ Len(hook.messages) = HOOK_MESSAGES
  /\ hook.messages[1] = appended

====
